---- MODULE Spec2Model ----
(***************************************************************************)
(* Orchestr8 backend: the request handlers of app/views.py over the        *)
(* relational ledger of app/models.py, the manifest directories and the    *)
(* cluster objects they drive through kubectl.                             *)
(*                                                                         *)
(* The ledger is a PostgreSQL database (app/db.py): a handler runs in one  *)
(* transaction (delete_pod in two, one after the other) at READ COMMITTED, *)
(* so its reads see committed rows only, and the UNIQUE and FOREIGN KEY    *)
(* constraints of app/models.py are enforced when a row is written.  Files *)
(* and cluster objects are not transactional.                              *)
(***************************************************************************)
EXTENDS Integers, Sequences, FiniteSets, TLC

----------------------------------------------------------------------------
(* Bounds of the model *)

NumWorkers == 2       \* requests in flight at the same time
MaxUserId == 3        \* user rows ever inserted
MaxKey == 5           \* session keys ever minted
MaxPortId == 3        \* reserved_port rows ever inserted
MaxEnvId == 1         \* pod_env rows ever inserted
MaxStorageId == 2     \* storage rows ever inserted
MaxServed == 3        \* handler steps AllSpec follows
MaxContainers == 2    \* containers of the pods scheduled on one node
MaxLines == 2         \* log lines waiting on the subprocess's stdout

(* Program constants *)

FirstExternalPort == 30001
GraceTimeout == 5      \* asyncio.wait_for(process.wait(), timeout=5)

Workers == 1..NumWorkers

----------------------------------------------------------------------------
(* Inputs the callers choose from *)

Usernames == {"alice", "bob", "carol"}
Passwords == {"pw", "other"}
InternalPorts == {8080, 9090}
Protocols == {"TCP"}
VolumeNames == {<<"d", " ", "s">>, <<" ", "d", "_", "s">>}
EnvNames == {"MODE"}
EnvValues == {"fast"}

None == [id |-> 0]    \* Python's None where a row is looked up
NULL == 0             \* SQL NULL, and an id no row has

----------------------------------------------------------------------------
(* bcrypt and JWT *)

\* bcrypt.hashpw(x, gensalt()): one-way, and checkpw accepts exactly x.
hashpw(x) == <<"bcrypt", x>>
checkpw(x, h) == h = hashpw(x)

\* jwt.encode({'id': id, 'key': key}, SECRET_KEY): signed with the process secret.
jwt_encode(id, key) == [id |-> id, key |-> key, sig |-> "SECRET_KEY"]

\* A bearer value that was not signed with SECRET_KEY (or is missing):
\* jwt.decode raises on it.
Forged == [id |-> 1, key |-> 0, sig |-> "other"]

jwt_decodes(tok) == tok.sig = "SECRET_KEY"

----------------------------------------------------------------------------
(* Names, file names, object names *)

\* str.strip(): leading and trailing blanks removed.
RECURSIVE lstrip(_)
lstrip(s) == IF s # <<>> /\ Head(s) = " " THEN lstrip(Tail(s)) ELSE s

RECURSIVE rstrip(_)
rstrip(s) ==
    IF s # <<>> /\ s[Len(s)] = " " THEN rstrip(SubSeq(s, 1, Len(s) - 1)) ELSE s

strip(s) == rstrip(lstrip(s))

\* str.replace(" ", "_")
replace_blank(s) == [i \in 1..Len(s) |-> IF s[i] = " " THEN "_" ELSE s[i]]

\* name.strip().replace(" ", "_")
sanitize(name) == replace_blank(strip(name))

\* An integer as an f-string renders it: its decimal digits.
RECURSIVE decimal(_)
decimal(n) ==
    LET digit == <<"0", "1", "2", "3", "4", "5", "6", "7", "8", "9">>
    IN  IF n < 10 THEN <<digit[n + 1]>>
        ELSE decimal(n \div 10) \o <<digit[(n % 10) + 1]>>

\* f"/{name}.yaml", f"{pod.name}-{port}", f"/{pod.name}-{port}.yaml"
yaml(name) == name \o <<".", "y", "a", "m", "l">>
svc_name(name, port) == name \o <<"-">> \o decimal(port)
svc_yaml(name, port) == yaml(svc_name(name, port))

\* Variant of the match: the whole file name is compared with the pod's.
re_match_whole(name, file) == file = yaml(name)

\* re.match(re.compile(f"{name}.*"), file): the file name starts with name.
re_match(name, file) ==
    /\ Len(name) <= Len(file)
    /\ SubSeq(file, 1, Len(name)) = name

----------------------------------------------------------------------------
VARIABLES
    users,           \* table user
    storages,        \* table storage
    pods,            \* table pod
    reserved_ports,  \* table reserved_port (committed rows)
    pod_envs,        \* table pod_env
    seq,             \* the tables' id sequences and the count of minted keys
    pod_files,       \* file names under PODS_META_PATH
    volume_files,    \* file names under VOLUMES_META_PATH
    k8s_pods,        \* live Pod objects (names)
    k8s_svcs,        \* live Service objects (names)
    k8s_pvcs,        \* live PersistentVolumeClaim objects (names)
    issued,          \* bearer tokens handed to callers
    workers,         \* each request in flight: where it stands, its locals
    last,            \* the handler step taken last and how it ended
    released,        \* history: the external ports released so far, each with
                     \* the id the next reserved_port row was to get
    served,          \* history: the handler steps taken so far, where the
                     \* specification counts them (-1 where it does not)
    snapshot,        \* what kubectl get nodes / get pods answer: the nodes,
                     \* each with the pods scheduled on it
    gpu_info,        \* the replies of get_gpus_available so far (the last one)
    ws,              \* the log channel /ws/logs/{pod_id} and its handler
    process,         \* the kubectl logs -f subprocess of the log channel
    apply_returncode,\* the exit status that microk8s kubectl apply gives
    applies          \* history: the kubectl apply commands issued so far

ledger == <<users, storages, pods, reserved_ports, pod_envs>>
disk == <<pod_files, volume_files>>
cluster == <<k8s_pods, k8s_svcs, k8s_pvcs>>
world == <<ledger, disk, cluster>>
gpus == <<snapshot, gpu_info>>
logs == <<ws, process>>
orchestrator == <<apply_returncode, applies>>
vars == <<users, storages, pods, reserved_ports, pod_envs, seq, pod_files,
          volume_files, k8s_pods, k8s_svcs, k8s_pvcs, issued, workers, last,
          released, served, snapshot, gpu_info, ws, process, apply_returncode,
          applies>>

Idle == [pc |-> "idle"]

\* No log channel is open, and no subprocess has been started for one.
NoChannel == [pc |-> "none", client |-> "none"]
NoProcess == [state |-> "none", stdout |-> 0]

----------------------------------------------------------------------------
(* The state the service starts in.  The database, the manifest            *)
(* directories and the cluster outlive the process: it starts either on a  *)
(* fresh installation or on a ledger that earlier runs have left, which    *)
(* satisfies the constraints of app/models.py.                             *)

Fresh ==
    /\ users = {}
    /\ pods = {}
    /\ seq = [user |-> 1, storage |-> 1, port |-> 1, env |-> 1, key |-> 1]
    /\ pod_files = {}
    /\ k8s_pods = {}
    /\ issued = {}

\* alice (admin) owns pod "a", bob owns pod "ab"; each holds the token of
\* their latest login, and alice still holds the one of her login before.
Seeded ==
    /\ users =
        { [id |-> 1, username |-> "alice", password |-> hashpw("pw"),
           is_admin |-> TRUE, session_key |-> hashpw(2)],
          [id |-> 2, username |-> "bob", password |-> hashpw("pw"),
           is_admin |-> FALSE, session_key |-> hashpw(3)] }
    /\ pods =
        { [id |-> 1, name |-> <<"a">>, container_image |-> "img", cpu |-> "1",
           memory |-> "1Gi", gpu |-> 0, port |-> 80, user_id |-> 1,
           storage_id |-> NULL],
          [id |-> 2, name |-> <<"a", "b">>, container_image |-> "img",
           cpu |-> "1", memory |-> "1Gi", gpu |-> 1, port |-> 80, user_id |-> 2,
           storage_id |-> NULL] }
    /\ seq = [user |-> 3, storage |-> 1, port |-> 1, env |-> 1, key |-> 4]
    /\ pod_files = {yaml(<<"a">>), yaml(<<"a", "b">>)}
    /\ k8s_pods = {<<"a">>, <<"a", "b">>}
    /\ issued = {jwt_encode(1, 1), jwt_encode(1, 2), jwt_encode(2, 3)}

Empty ==
    /\ storages = {}
    /\ reserved_ports = {}
    /\ pod_envs = {}
    /\ volume_files = {}
    /\ k8s_svcs = {}
    /\ k8s_pvcs = {}
    /\ workers = [p \in Workers |-> Idle]
    /\ last = [status |-> 0, why |-> "start"]
    /\ released = {}
    /\ gpu_info = {}
    /\ ws = NoChannel
    /\ process = NoProcess
    /\ applies = 0

\* alice owns the pods "a" and "c" and the volume "v" that "c" mounts, bob
\* owns nothing; the live pod "c" is gone (a recreate_pod has deleted it).
Stocked ==
    /\ users =
        { [id |-> 1, username |-> "alice", password |-> hashpw("pw"),
           is_admin |-> TRUE, session_key |-> hashpw(2)],
          [id |-> 2, username |-> "bob", password |-> hashpw("pw"),
           is_admin |-> FALSE, session_key |-> hashpw(3)] }
    /\ storages = {[id |-> 1, name |-> <<"v">>, capacity |-> "5Gi", user_id |-> 1]}
    /\ pods =
        { [id |-> 1, name |-> <<"a">>, container_image |-> "img", cpu |-> "1",
           memory |-> "1Gi", gpu |-> 0, port |-> 80, user_id |-> 1,
           storage_id |-> NULL],
          [id |-> 2, name |-> <<"c">>, container_image |-> "img", cpu |-> "1",
           memory |-> "1Gi", gpu |-> 1, port |-> 80, user_id |-> 1,
           storage_id |-> 1] }
    /\ reserved_ports = {}
    /\ pod_envs = {}
    /\ seq = [user |-> 3, storage |-> 2, port |-> 1, env |-> 1, key |-> 4]
    /\ pod_files = {yaml(<<"a">>), yaml(<<"c">>)}
    /\ volume_files = {yaml(<<"v">>)}
    /\ k8s_pods = {<<"a">>}
    /\ k8s_svcs = {}
    /\ k8s_pvcs = {<<"v">>}
    /\ issued = {jwt_encode(1, 1), jwt_encode(1, 2), jwt_encode(2, 3)}
    /\ workers = [p \in Workers |-> Idle]
    /\ last = [status |-> 0, why |-> "start"]
    /\ released = {}
    /\ gpu_info = {}
    /\ ws = NoChannel
    /\ process = NoProcess
    /\ applies = 0

Init == (Fresh \/ Seeded) /\ Empty /\ served = -1 /\ snapshot = <<>>
    /\ apply_returncode = 0

\* The start on the ledger that earlier runs have left.
InitSeeded == Seeded /\ Empty /\ served = -1 /\ snapshot = <<>>
    /\ apply_returncode = 0

\* The start of the specification that follows the first MaxServed steps.
InitCounted == (Fresh \/ Seeded) /\ Empty /\ served = 0 /\ snapshot = <<>>
    /\ apply_returncode = 0

\* The start on the ledger with alice's second pod and her volume.
InitStocked == Stocked /\ served = -1 /\ snapshot = <<>>
    /\ apply_returncode = 0

----------------------------------------------------------------------------
(* kubectl *)

\* The exit status of "microk8s kubectl delete <kind> <name>": 1 (NotFound)
\* when no such object is live.  subprocess.run returns it in a
\* CompletedProcess, which no handler looks at.
kubectl_delete_returncode(objects, name) == IF name \in objects THEN 0 ELSE 1

\* microk8s kubectl apply -f: the object is in the cluster when the command
\* exits with 0, and the cluster is as it was when it does not.
kubectl_apply(objects, name) ==
    IF apply_returncode = 0 THEN objects \cup {name} ELSE objects

\* Variant of subprocess.run: with check=True a non-zero exit raises.
run_raises_checked(returncode) == returncode # 0

\* subprocess.run(..., shell=True) without check: the exit status is in the
\* CompletedProcess that the handlers drop, nothing is raised.
run_raises(returncode) == FALSE

----------------------------------------------------------------------------
(* Queries *)

\* select(T).where(T.id == id).scalar(): the row, or None
ById(table, id) ==
    IF \E r \in table : r.id = id THEN CHOOSE r \in table : r.id = id ELSE None

\* Variant of the owner's query: without the where clause.
OfUser_unfiltered(table, uid) == table

\* select(T).where(T.user_id == uid)
OfUser(table, uid) == {r \in table : r.user_id = uid}

\* Variant of the pod's query: it finds no row.
OfUserPod_none(table, uid, pod_id) == {}

\* select(T).where(T.user_id == uid, T.pod_id == pod_id)
OfUserPod(table, uid, pod_id) ==
    {r \in table : r.user_id = uid /\ r.pod_id = pod_id}

\* The bearer values a caller can present: any token ever issued, or a forged one.
Bearers == issued \cup {Forged}

\* The common prelude of the handlers:
\*   session_jwt = jwt.decode(session_key, SECRET_KEY)
\*   user = select(User).where(User.id == session_jwt['id'])
\*   if not bcrypt.checkpw(session_jwt['key'], user.session_key): return 403
\* "decode": jwt.decode raises; "nouser": user is None, user.session_key raises.
authenticate(tok) ==
    IF ~jwt_decodes(tok) THEN "decode"
    ELSE LET user == ById(users, tok.id)
         IN  IF user = None THEN "nouser"
             ELSE IF ~checkpw(tok.key, user.session_key) THEN "403"
             ELSE "ok"

\* How a step ended: the HTTP status (500 for an exception that escapes the
\* handler, 0 while the handler is still running) and what decided it.
Reply(status, why) == last' = [status |-> status, why |-> why]

\* The reply of a handler whose prelude fails.
AuthFailed(tok) ==
    CASE authenticate(tok) = "decode" -> Reply(500, "jwt")
      [] authenticate(tok) = "nouser" -> Reply(500, "AttributeError")
      [] authenticate(tok) = "403" -> Reply(403, "credentials")

\* One more handler step, if the specification counts them.
Serve ==
    IF served < 0 THEN UNCHANGED served
    ELSE served < MaxServed /\ served' = served + 1

\* A request is taken by the first idle worker (the workers are alike).
Accepts(p) ==
    /\ workers[p] = Idle
    /\ \A q \in Workers : q < p => workers[q] # Idle
    /\ Serve

----------------------------------------------------------------------------
(* register, login, delete_user *)

\* Variant of the admin flag: every registered user gets it.
is_admin_always(users_count) == TRUE

\* is_admin = False; if users == 0: is_admin = True
is_admin(users_count) == users_count = 0

\* Variant of the rotation: the new hash is not stored on the row.
rotate_not_stored(user, key) == user

\* user.session_key = bcrypt.hashpw(key, gensalt())
rotate(user, key) == [user EXCEPT !.session_key = hashpw(key)]

\* The body of register; login runs it too on an empty user table.
register_body(username, password, tok) ==
    LET n == Cardinality(users)
        user == ById(users, tok.id)
        id == seq.user
        key == seq.key
    IN  IF n > 0 /\ ~jwt_decodes(tok) THEN
            Reply(500, "jwt") /\ UNCHANGED <<users, seq, issued>>
        ELSE IF n > 0 /\ user = None THEN
            Reply(500, "AttributeError") /\ UNCHANGED <<users, seq, issued>>
        ELSE IF n > 0 /\ ~checkpw(tok.key, user.session_key) THEN
            Reply(403, "credentials") /\ UNCHANGED <<users, seq, issued>>
        ELSE IF n > 0 /\ ~user.is_admin THEN
            Reply(403, "admin") /\ UNCHANGED <<users, seq, issued>>
        ELSE IF \E u \in users : u.username = username THEN
            \* UniqueConstraint("username"): the flush raises
            Reply(500, "UniqueViolation") /\ UNCHANGED <<users, seq, issued>>
        ELSE
            /\ id <= MaxUserId
            /\ key <= MaxKey
            /\ users' = users \cup
                 {rotate([id |-> id, username |-> username,
                          password |-> hashpw(password),
                          is_admin |-> is_admin(n), session_key |-> <<"NULL">>],
                         key)}
            /\ seq' = [seq EXCEPT !.user = id + 1, !.key = key + 1]
            /\ issued' = issued \cup {jwt_encode(id, key)}
            /\ Reply(200, "ok")

register(p, username, password, tok) ==
    /\ Accepts(p)
    /\ register_body(username, password, tok)
    /\ UNCHANGED <<storages, pods, reserved_ports, pod_envs, disk, cluster,
                   workers,
                   released>>
    /\ UNCHANGED <<gpus, logs, orchestrator>>

login(p, username, password) ==
    /\ Accepts(p)
    /\ LET found == {u \in users : u.username = username}
           user == CHOOSE u \in found : TRUE
           key == seq.key
       IN  IF found = {} THEN
               IF Cardinality(users) = 0 THEN
                   register_body(username, password, Forged)
               ELSE
                   Reply(403, "password") /\ UNCHANGED <<users, seq, issued>>
           ELSE IF ~checkpw(password, user.password) THEN
               Reply(403, "password") /\ UNCHANGED <<users, seq, issued>>
           ELSE
               /\ key <= MaxKey
               /\ users' = (users \ {user}) \cup {rotate(user, key)}
               /\ seq' = [seq EXCEPT !.key = key + 1]
               /\ issued' = issued \cup {jwt_encode(user.id, key)}
               /\ Reply(200, "ok")
    /\ UNCHANGED <<storages, pods, reserved_ports, pod_envs, disk, cluster,
                   workers,
                   released>>
    /\ UNCHANGED <<gpus, logs, orchestrator>>

\* register and login statement by statement, for requests that run at the
\* same time: each statement reads the rows committed by then.

\* register from the count to the admin check: the handler goes on to the
\* insert with the is_admin that the count gave, or returns.
register_checks(p, username, password, tok) ==
    LET n == Cardinality(users)
        user == ById(users, tok.id)
    IN  IF n > 0 /\ ~jwt_decodes(tok) THEN
            Reply(500, "jwt") /\ workers' = [workers EXCEPT ![p] = Idle]
        ELSE IF n > 0 /\ user = None THEN
            Reply(500, "AttributeError")
            /\ workers' = [workers EXCEPT ![p] = Idle]
        ELSE IF n > 0 /\ ~checkpw(tok.key, user.session_key) THEN
            Reply(403, "credentials")
            /\ workers' = [workers EXCEPT ![p] = Idle]
        ELSE IF n > 0 /\ ~user.is_admin THEN
            Reply(403, "admin") /\ workers' = [workers EXCEPT ![p] = Idle]
        ELSE
            /\ workers' = [workers EXCEPT ![p] =
                  [pc |-> "insert", op |-> "register", username |-> username,
                   password |-> password, is_admin |-> is_admin(n)]]
            /\ Reply(0, "run")

\* A register request: select count(*) from user, and the checks.
register_count(p, username, password, tok) ==
    /\ Accepts(p)
    /\ register_checks(p, username, password, tok)
    /\ UNCHANGED <<users, seq, issued>>
    /\ UNCHANGED <<storages, pods, reserved_ports, pod_envs, disk, cluster,
                   released>>
    /\ UNCHANGED <<gpus, logs, orchestrator>>

\* A login request up to the call of register (username, password and no
\* session_key) that it makes on an empty user table.
login_select(p, username, password) ==
    /\ Accepts(p)
    /\ LET found == {u \in users : u.username = username}
           user == CHOOSE u \in found : TRUE
           key == seq.key
       IN  IF found = {} THEN
               IF Cardinality(users) = 0 THEN
                   /\ workers' = [workers EXCEPT ![p] =
                         [pc |-> "count", op |-> "login",
                          username |-> username, password |-> password]]
                   /\ Reply(0, "run")
                   /\ UNCHANGED <<users, seq, issued>>
               ELSE
                   /\ Reply(403, "password")
                   /\ UNCHANGED <<users, seq, issued, workers>>
           ELSE IF ~checkpw(password, user.password) THEN
               Reply(403, "password") /\ UNCHANGED <<users, seq, issued, workers>>
           ELSE
               /\ key <= MaxKey
               /\ users' = (users \ {user}) \cup {rotate(user, key)}
               /\ seq' = [seq EXCEPT !.key = key + 1]
               /\ issued' = issued \cup {jwt_encode(user.id, key)}
               /\ Reply(200, "ok")
               /\ UNCHANGED workers
    /\ UNCHANGED <<storages, pods, reserved_ports, pod_envs, disk, cluster,
                   released>>
    /\ UNCHANGED <<gpus, logs, orchestrator>>

\* The register that login called: its count and checks, in its own session.
login_register(p) ==
    /\ workers[p].pc = "count"
    /\ Serve
    /\ register_checks(p, workers[p].username, workers[p].password, Forged)
    /\ UNCHANGED <<users, seq, issued>>
    /\ UNCHANGED <<storages, pods, reserved_ports, pod_envs, disk, cluster,
                   released>>
    /\ UNCHANGED <<gpus, logs, orchestrator>>

\* session.add(user), flush, the session key, and the commit.
register_flush(p) ==
    /\ workers[p].pc = "insert"
    /\ Serve
    /\ LET w == workers[p]
           id == seq.user
           key == seq.key
       IN  IF \E u \in users : u.username = w.username THEN
               \* UniqueConstraint("username"): the flush raises
               Reply(500, "UniqueViolation") /\ UNCHANGED <<users, seq, issued>>
           ELSE
               /\ id <= MaxUserId
               /\ key <= MaxKey
               /\ users' = users \cup
                    {rotate([id |-> id, username |-> w.username,
                             password |-> hashpw(w.password),
                             is_admin |-> w.is_admin,
                             session_key |-> <<"NULL">>], key)}
               /\ seq' = [seq EXCEPT !.user = id + 1, !.key = key + 1]
               /\ issued' = issued \cup {jwt_encode(id, key)}
               /\ Reply(200, "ok")
    /\ workers' = [workers EXCEPT ![p] = Idle]
    /\ UNCHANGED <<storages, pods, reserved_ports, pod_envs, disk, cluster,
                   released>>
    /\ UNCHANGED <<gpus, logs, orchestrator>>

\* Rows that reference user id through their user_id foreign key.
ReferencesUser(id) ==
    \E r \in storages \cup pods \cup reserved_ports \cup pod_envs :
        r.user_id = id

delete_user(p, user_id, tok) ==
    /\ Accepts(p)
    /\ LET target == ById(users, user_id)
       IN  IF authenticate(tok) # "ok" THEN
               AuthFailed(tok) /\ UNCHANGED users
           ELSE IF ~ById(users, tok.id).is_admin THEN
               Reply(403, "admin") /\ UNCHANGED users
           ELSE IF target = None THEN
               \* session.delete(None) raises
               Reply(500, "UnmappedInstanceError") /\ UNCHANGED users
           ELSE IF ReferencesUser(user_id) THEN
               \* foreign keys on user.id: the DELETE fails at commit
               Reply(500, "ForeignKeyViolation") /\ UNCHANGED users
           ELSE
               users' = users \ {target} /\ Reply(200, "ok")
    /\ UNCHANGED <<storages, pods, reserved_ports, pod_envs, seq, disk, cluster,
                   issued, workers,
                   released>>
    /\ UNCHANGED <<gpus, logs, orchestrator>>

----------------------------------------------------------------------------
(* Volumes *)

create_volume(p, name, capacity, tok) ==
    /\ Accepts(p)
    /\ LET name_s == sanitize(name)
           id == seq.storage
       IN  IF authenticate(tok) # "ok" THEN
               /\ AuthFailed(tok)
               /\ UNCHANGED <<storages, seq, volume_files, k8s_pvcs, applies>>
           ELSE IF \E s \in storages : s.name = name_s THEN
               \* UniqueConstraint("name"): the flush raises
               /\ Reply(500, "UniqueViolation")
               /\ UNCHANGED <<storages, seq, volume_files, k8s_pvcs, applies>>
           ELSE
               /\ id <= MaxStorageId
               /\ seq' = [seq EXCEPT !.storage = id + 1]
               /\ volume_files' = volume_files \cup {yaml(name_s)}
               /\ applies' = applies + 1
               /\ k8s_pvcs' = kubectl_apply(k8s_pvcs, name_s)
               /\ IF run_raises(apply_returncode) THEN
                      /\ UNCHANGED storages
                      /\ Reply(500, "CalledProcessError")
                  ELSE
                      \* the block ends, get_session commits
                      /\ storages' = storages \cup
                           {[id |-> id, name |-> name_s,
                             capacity |-> capacity, user_id |-> tok.id]}
                      /\ Reply(200, "ok")
    /\ UNCHANGED <<users, pods, reserved_ports, pod_envs, pod_files, k8s_pods,
                   k8s_svcs, issued, workers,
                   released>>
    /\ UNCHANGED <<gpus, logs, apply_returncode>>

\* Variant of the foreign key: no pod row is taken to reference the volume.
storage_referenced_never(volume) == FALSE

\* Pod.storage_id, foreign_key="storage.id": a pod row references the volume.
storage_referenced(volume) == \E pod \in pods : pod.storage_id = volume.id

delete_volume(p, volume_id, tok) ==
    /\ Accepts(p)
    /\ LET volume == ById(OfUser(storages, tok.id), volume_id)
       IN  IF authenticate(tok) # "ok" THEN
               /\ AuthFailed(tok)
               /\ UNCHANGED <<storages, volume_files, k8s_pvcs>>
           ELSE IF volume = None THEN
               /\ Reply(403, "owner")
               /\ UNCHANGED <<storages, volume_files, k8s_pvcs>>
           ELSE IF yaml(volume.name) \notin volume_files THEN
               \* os.remove raises FileNotFoundError
               /\ Reply(500, "FileNotFoundError")
               /\ UNCHANGED <<storages, volume_files, k8s_pvcs>>
           ELSE
               /\ volume_files' = volume_files \ {yaml(volume.name)}
               /\ k8s_pvcs' = k8s_pvcs \ {volume.name}
               /\ IF storage_referenced(volume) THEN
                      \* foreign key pod.storage_id: the DELETE fails at commit
                      /\ UNCHANGED storages
                      /\ Reply(500, "ForeignKeyViolation")
                  ELSE
                      /\ storages' = storages \ {volume}
                      /\ Reply(200, "ok")
    /\ UNCHANGED <<users, pods, reserved_ports, pod_envs, seq, pod_files,
                   k8s_pods, k8s_svcs, issued, workers,
                   released>>
    /\ UNCHANGED <<gpus, logs, orchestrator>>

----------------------------------------------------------------------------
(* Pods *)

\* create_pod_yaml is called with mount_path, which it does not take, so the
\* call raises TypeError after the flush and the transaction rolls back.
create_pod(p, name, storage_id, tok) ==
    /\ Accepts(p)
    /\ LET name_s == sanitize(name)
           owned == ById(OfUser(storages, tok.id), storage_id)
       IN  IF authenticate(tok) # "ok" THEN
               AuthFailed(tok)
           ELSE IF \E pod \in pods : pod.name = name_s THEN
               \* UniqueConstraint("name"): the flush raises
               Reply(500, "UniqueViolation")
           ELSE IF storage_id # 0 /\ ById(storages, storage_id) = None THEN
               \* foreign key pod.storage_id: the flush raises
               Reply(500, "ForeignKeyViolation")
           ELSE IF storage_id # 0 /\ owned = None THEN
               \* storage.name on None
               Reply(500, "AttributeError")
           ELSE
               Reply(500, "TypeError")
    /\ UNCHANGED <<ledger, seq, disk, cluster, issued, workers,
                   released>>
    /\ UNCHANGED <<gpus, logs, orchestrator>>

get_pods(p, tok) ==
    /\ Accepts(p)
    /\ IF authenticate(tok) # "ok" THEN AuthFailed(tok)
       ELSE Reply(200, "ok")
    /\ UNCHANGED <<ledger, seq, disk, cluster, issued, workers,
                   released>>
    /\ UNCHANGED <<gpus, logs, orchestrator>>

\* The live pod is deleted, then pod.mount_path raises AttributeError: the
\* Pod model has no such field.
recreate_pod(p, pod_id, tok) ==
    /\ Accepts(p)
    /\ LET pod == ById(OfUser(pods, tok.id), pod_id)
       IN  IF authenticate(tok) # "ok" THEN
               AuthFailed(tok) /\ UNCHANGED k8s_pods
           ELSE IF pod = None THEN
               Reply(403, "owner") /\ UNCHANGED k8s_pods
           ELSE
               /\ k8s_pods' = k8s_pods \ {pod.name}
               /\ Reply(500, "AttributeError")
    /\ UNCHANGED <<ledger, seq, disk, k8s_svcs, k8s_pvcs, issued, workers,
                   released>>
    /\ UNCHANGED <<gpus, logs, orchestrator>>

\* delete_pod, first transaction: the pod's reserved_port rows with their
\* services, and its pod_env rows.
delete_pod_children(p, pod_id, tok) ==
    /\ Accepts(p)
    /\ LET pod == ById(OfUser(pods, tok.id), pod_id)
           ports == OfUserPod(reserved_ports, tok.id, pod_id)
           envs == OfUserPod(pod_envs, tok.id, pod_id)
       IN  IF authenticate(tok) # "ok" THEN
               /\ AuthFailed(tok)
               /\ UNCHANGED <<reserved_ports, pod_envs, k8s_svcs, workers,
                              released>>
           ELSE IF pod = None THEN
               /\ Reply(403, "owner")
               /\ UNCHANGED <<reserved_ports, pod_envs, k8s_svcs, workers,
                              released>>
           ELSE
               /\ reserved_ports' = reserved_ports \ ports
               /\ released' = released \cup
                    {[external_port |-> r.external_port, next_id |-> seq.port] :
                       r \in ports}
               /\ k8s_svcs' = k8s_svcs \ {svc_name(pod.name, r.port) : r \in ports}
               /\ pod_envs' = pod_envs \ envs
               /\ workers' = [workers EXCEPT ![p] =
                    [pc |-> "files", op |-> "delete_pod", pod |-> pod,
                     reserved_ports |-> ports, envs |-> envs]]
               /\ Reply(0, "run")
    /\ UNCHANGED <<users, storages, pods, seq, disk, k8s_pods, k8s_pvcs, issued>>
    /\ UNCHANGED <<gpus, logs, orchestrator>>

\* delete_pod, second transaction: the manifest files whose name matches the
\* pod's, the live pod, and at the commit the DELETE of the pod row.
delete_pod_files(p) ==
    /\ workers[p].pc = "files"
    /\ Serve
    /\ LET pod == workers[p].pod
       IN  /\ pod_files' = {f \in pod_files : ~re_match(pod.name, f)}
           /\ k8s_pods' = k8s_pods \ {pod.name}
           /\ IF \E r \in reserved_ports \cup pod_envs : r.pod_id = pod.id THEN
                  \* foreign keys on pod.id: the DELETE fails, rollback
                  UNCHANGED pods /\ Reply(500, "ForeignKeyViolation")
              ELSE
                  pods' = {r \in pods : r.id # pod.id} /\ Reply(200, "ok")
    /\ workers' = [workers EXCEPT ![p] = Idle]
    /\ UNCHANGED <<users, storages, reserved_ports, pod_envs, seq, volume_files,
                   k8s_svcs, k8s_pvcs, issued,
                   released>>
    /\ UNCHANGED <<gpus, logs, orchestrator>>

\* delete_pod's second transaction statement by statement, for where the
\* order of its effects matters or the request ends between them.  First
\* the manifest files whose name matches the pod's are removed; session.delete
\* marks the pod row, the DELETE waits for the commit.
delete_pod_remove(p) ==
    /\ workers[p].pc = "files"
    /\ Serve
    /\ pod_files' = {f \in pod_files : ~re_match(workers[p].pod.name, f)}
    /\ workers' = [workers EXCEPT ![p] = [@ EXCEPT !.pc = "kubectl"]]
    /\ Reply(0, "run")
    /\ UNCHANGED <<ledger, seq, volume_files, cluster, issued, released>>
    /\ UNCHANGED <<gpus, logs, orchestrator>>

\* microk8s kubectl delete pod {pod.name}
delete_pod_kubectl(p) ==
    /\ workers[p].pc = "kubectl"
    /\ Serve
    /\ k8s_pods' = k8s_pods \ {workers[p].pod.name}
    /\ workers' = [workers EXCEPT ![p] = [@ EXCEPT !.pc = "commit"]]
    /\ Reply(0, "run")
    /\ UNCHANGED <<ledger, seq, disk, k8s_svcs, k8s_pvcs, issued, released>>
    /\ UNCHANGED <<gpus, logs, orchestrator>>

\* The commit at the end of the with block: the DELETE of the pod row.
delete_pod_commit(p) ==
    /\ workers[p].pc = "commit"
    /\ Serve
    /\ LET pod == workers[p].pod
       IN  IF \E r \in reserved_ports \cup pod_envs : r.pod_id = pod.id THEN
               \* foreign keys on pod.id: the DELETE fails, rollback
               UNCHANGED pods /\ Reply(500, "ForeignKeyViolation")
           ELSE
               pods' = {r \in pods : r.id # pod.id} /\ Reply(200, "ok")
    /\ workers' = [workers EXCEPT ![p] = Idle]
    /\ UNCHANGED <<users, storages, reserved_ports, pod_envs, seq, disk,
                   cluster, issued, released>>
    /\ UNCHANGED <<gpus, logs, orchestrator>>

\* The request ends where it stands: its worker process is killed or the
\* connection to the database is lost.  What get_session has committed
\* stays, the open transaction is rolled back by the database, files and
\* cluster objects stay as they are.
crash(p) ==
    /\ workers[p] # Idle
    /\ workers' = [workers EXCEPT ![p] = Idle]
    /\ Reply(500, "crash")
    /\ UNCHANGED <<ledger, seq, disk, cluster, issued, released, served>>
    /\ UNCHANGED <<gpus, logs, orchestrator>>

----------------------------------------------------------------------------
(* Environment entries *)

\* Variant of the new row: it belongs to no pod.
PodEnv_of_no_pod(id, name, value, user, pod) ==
    [id |-> id, name |-> name, value |-> value, user_id |-> user.id,
     pod_id |-> NULL]

\* PodEnv(name=name, value=value, user_id=user.id, pod_id=pod.id)
PodEnv(id, name, value, user, pod) ==
    [id |-> id, name |-> name, value |-> value, user_id |-> user.id,
     pod_id |-> pod.id]

add_pod_env(p, pod_id, name, value, tok) ==
    /\ Accepts(p)
    /\ LET pod == ById(OfUser(pods, tok.id), pod_id)
           id == seq.env
       IN  IF authenticate(tok) # "ok" THEN
               AuthFailed(tok) /\ UNCHANGED <<pod_envs, seq>>
           ELSE IF pod = None THEN
               Reply(403, "owner") /\ UNCHANGED <<pod_envs, seq>>
           ELSE
               /\ id <= MaxEnvId
               /\ pod_envs' = pod_envs \cup
                    {PodEnv(id, name, value, ById(users, tok.id), pod)}
               /\ seq' = [seq EXCEPT !.env = id + 1]
               /\ Reply(200, "ok")
    /\ UNCHANGED <<users, storages, pods, reserved_ports, disk, cluster, issued,
                   workers,
                   released>>
    /\ UNCHANGED <<gpus, logs, orchestrator>>

delete_pod_env(p, pod_id, env_id, tok) ==
    /\ Accepts(p)
    /\ LET pod == ById(OfUser(pods, tok.id), pod_id)
           env == ById(OfUser(pod_envs, tok.id), env_id)
       IN  IF authenticate(tok) # "ok" THEN
               AuthFailed(tok) /\ UNCHANGED pod_envs
           ELSE IF pod = None THEN
               Reply(403, "owner") /\ UNCHANGED pod_envs
           ELSE IF env = None THEN
               Reply(403, "owner") /\ UNCHANGED pod_envs
           ELSE
               pod_envs' = pod_envs \ {env} /\ Reply(200, "ok")
    /\ UNCHANGED <<users, storages, pods, reserved_ports, seq, disk, cluster,
                   issued, workers,
                   released>>
    /\ UNCHANGED <<gpus, logs, orchestrator>>

----------------------------------------------------------------------------
(* Exposed ports *)

\* select(func.max(ReservedPort.external_port)), then
\*   if not port_to_reserve: 30001   else: port_to_reserve += 1
RECURSIVE func_max(_)
func_max(S) ==
    IF S = {} THEN NULL
    ELSE LET x == CHOOSE y \in S : TRUE
             m == func_max(S \ {x})
         IN  IF m = NULL \/ x > m THEN x ELSE m

\* Variants of the choice of port: without the first port, so that the empty
\* table's NULL counts as 0, and the lowest port no row holds.
port_to_reserve_no_first(rows) ==
    func_max({r.external_port : r \in rows}) + 1

port_to_reserve_lowest_free(rows) ==
    LET held == {r.external_port : r \in rows}
        range == FirstExternalPort..(FirstExternalPort + Cardinality(rows))
    IN  CHOOSE v \in range \ held : \A u \in range \ held : v <= u

port_to_reserve(rows) ==
    LET max == func_max({r.external_port : r \in rows})
    IN  IF max = NULL THEN FirstExternalPort ELSE max + 1

\* Variant of the duplicate test: the rows' external ports are compared.
ports_of_external(rows) == {r.external_port : r \in rows}

\* [i.port for i in reserved_ports]
ports_of(rows) == {r.port : r \in rows}

\* Requests that passed the checks of add_exposed_port_to_pod and have not
\* yet inserted their row.
Flushing == {w \in Workers : workers[w].pc \in {"max", "flush"}}

\* add_exposed_port_to_pod up to its test of the pod's ports: the prelude,
\* the ownership check and the test for a duplicate internal port.
add_exposed_port_to_pod(p, pod_id, port, protocol, tok) ==
    /\ Accepts(p)
    /\ LET pod == ById(OfUser(pods, tok.id), pod_id)
           taken == ports_of(OfUserPod(reserved_ports, tok.id, pod_id))
       IN  IF authenticate(tok) # "ok" THEN
               /\ AuthFailed(tok)
               /\ UNCHANGED workers
           ELSE IF pod = None THEN
               Reply(403, "owner") /\ UNCHANGED workers
           ELSE IF port \in taken THEN
               Reply(400, "duplicate") /\ UNCHANGED workers
           ELSE
               /\ seq.port + Cardinality(Flushing) <= MaxPortId
               /\ workers' = [workers EXCEPT ![p] =
                    [pc |-> "max", op |-> "add_exposed_port_to_pod",
                     pod |-> pod, user_id |-> tok.id, port |-> port,
                     protocol |-> protocol, port_to_reserve |-> NULL]]
               /\ Reply(0, "run")
    /\ UNCHANGED <<ledger, seq, disk, cluster, issued,
                   released>>
    /\ UNCHANGED <<gpus, logs, orchestrator>>

\* The next statement of the same transaction, select(func.max(...)): at
\* READ COMMITTED it sees the rows committed by then, those committed since
\* the test of the pod's ports included.
add_exposed_port_to_pod_max(p) ==
    /\ workers[p].pc = "max"
    /\ Serve
    /\ workers' = [workers EXCEPT ![p] =
         [@ EXCEPT !.pc = "flush",
                   !.port_to_reserve = port_to_reserve(reserved_ports)]]
    /\ Reply(0, "run")
    /\ UNCHANGED <<ledger, seq, disk, cluster, issued,
                   released>>
    /\ UNCHANGED <<gpus, logs, orchestrator>>

\* Variants of the constraint: on the column port, and none at all.
external_port_taken_column_port(external_port) ==
    \E r \in reserved_ports : r.port = external_port

external_port_taken_never(external_port) == FALSE

\* UniqueConstraint("external_port") against a committed row.
external_port_taken(external_port) ==
    \E r \in reserved_ports : r.external_port = external_port

\* From the flush to the commit: the INSERT, then the service manifest is
\* written and applied.  The row becomes visible to the other transactions
\* at the commit, which nothing else of this handler precedes.
add_exposed_port_to_pod_flush(p) ==
    /\ workers[p].pc = "flush"
    /\ Serve
    /\ LET w == workers[p]
           pod == w.pod
           reserved_port ==
               [id |-> seq.port, port |-> w.port,
                external_port |-> w.port_to_reserve, protocol |-> w.protocol,
                user_id |-> w.user_id, pod_id |-> pod.id]
       IN  IF external_port_taken(reserved_port.external_port) THEN
               \* the flush raises, rollback
               /\ Reply(500, "UniqueViolation")
               /\ UNCHANGED <<reserved_ports, seq, pod_files, k8s_svcs, applies>>
           ELSE IF \/ ById(users, reserved_port.user_id) = None
                   \/ ById(pods, reserved_port.pod_id) = None
           THEN
               \* foreign keys user_id, pod_id: the flush raises, rollback
               /\ Reply(500, "ForeignKeyViolation")
               /\ UNCHANGED <<reserved_ports, seq, pod_files, k8s_svcs, applies>>
           ELSE
               /\ seq' = [seq EXCEPT !.port = reserved_port.id + 1]
               /\ pod_files' = pod_files \cup
                    {svc_yaml(pod.name, reserved_port.port)}
               /\ applies' = applies + 1
               /\ k8s_svcs' = kubectl_apply(k8s_svcs,
                    svc_name(pod.name, reserved_port.port))
               /\ IF run_raises(apply_returncode) THEN
                      /\ UNCHANGED reserved_ports
                      /\ Reply(500, "CalledProcessError")
                  ELSE
                      \* the block ends, get_session commits
                      /\ reserved_ports' = reserved_ports \cup {reserved_port}
                      /\ Reply(200, "ok")
    /\ workers' = [workers EXCEPT ![p] = Idle]
    /\ UNCHANGED <<users, storages, pods, pod_envs, volume_files, k8s_pods,
                   k8s_pvcs, issued,
                   released>>
    /\ UNCHANGED <<gpus, logs, apply_returncode>>

delete_exposed_port(p, pod_id, port_id, tok) ==
    /\ Accepts(p)
    /\ LET pod == ById(OfUser(pods, tok.id), pod_id)
           reserved_port == ById(OfUser(reserved_ports, tok.id), port_id)
       IN  IF authenticate(tok) # "ok" THEN
               /\ AuthFailed(tok)
               /\ UNCHANGED <<reserved_ports, pod_files, k8s_svcs, released>>
           ELSE IF pod = None THEN
               /\ Reply(403, "owner")
               /\ UNCHANGED <<reserved_ports, pod_files, k8s_svcs, released>>
           ELSE IF reserved_port = None THEN
               /\ Reply(403, "owner")
               /\ UNCHANGED <<reserved_ports, pod_files, k8s_svcs, released>>
           ELSE IF svc_yaml(pod.name, reserved_port.port) \notin pod_files THEN
               \* os.remove raises FileNotFoundError
               /\ Reply(500, "FileNotFoundError")
               /\ UNCHANGED <<reserved_ports, pod_files, k8s_svcs, released>>
           ELSE
               /\ pod_files' = pod_files \ {svc_yaml(pod.name, reserved_port.port)}
               /\ reserved_ports' = reserved_ports \ {reserved_port}
               /\ released' = released \cup
                    {[external_port |-> reserved_port.external_port,
                      next_id |-> seq.port]}
               /\ k8s_svcs' = k8s_svcs \ {svc_name(pod.name, reserved_port.port)}
               /\ Reply(200, "ok")
    /\ UNCHANGED <<users, storages, pods, pod_envs, seq, volume_files, k8s_pods,
                   k8s_pvcs, issued, workers>>
    /\ UNCHANGED <<gpus, logs, orchestrator>>

----------------------------------------------------------------------------
(* GPU accounting: get_gpu_info of app/core.py *)

gpu_resource == "nvidia.com/gpu"

\* int(s) of a string of decimal digits
RECURSIVE int(_)
int(s) ==
    IF s = <<>> THEN 0
    ELSE 10 * int(SubSeq(s, 1, Len(s) - 1))
         + CHOOSE d \in 0..9 : decimal(d) = <<s[Len(s)]>>

\* int(requests.get(gpu_resource, 0)), requests being
\* container.get("resources", {}).get("requests", {})
requested(container) ==
    IF gpu_resource \in DOMAIN container.requests
    THEN int(container.requests[gpu_resource])
    ELSE 0

\* for container in pod["spec"]["containers"]: node_allocated += ...
RECURSIVE containers_allocated(_)
containers_allocated(containers) ==
    IF containers = <<>> THEN 0
    ELSE requested(Head(containers)) + containers_allocated(Tail(containers))

\* for pod in pods: ... over the pods that kubectl lists for the node
RECURSIVE node_allocated(_)
node_allocated(node_pods) ==
    IF node_pods = <<>> THEN 0
    ELSE containers_allocated(Head(node_pods).containers)
         + node_allocated(Tail(node_pods))

\* Variant of the node's free count: its capacity.
node_available_total(node_total, allocated) == node_total

\* node_available = node_total - node_allocated
node_available(node_total, allocated) == node_total - allocated

\* for node in nodes: if gpu_resource in capacity: node_info.append({...})
RECURSIVE node_info(_)
node_info(nodes) ==
    IF nodes = <<>> THEN <<>>
    ELSE LET node == Head(nodes)
             node_total == int(node.capacity[gpu_resource])
             allocated == node_allocated(node.pods)
         IN  (IF gpu_resource \in DOMAIN node.capacity
              THEN <<[node |-> node.name, total |-> node_total,
                      allocated |-> allocated,
                      available |-> node_available(node_total, allocated)]>>
              ELSE <<>>)
             \o node_info(Tail(nodes))

\* total_gpus += node_total, allocated_gpus += node_allocated over the loop
RECURSIVE total_gpus(_)
total_gpus(info) ==
    IF info = <<>> THEN 0 ELSE Head(info).total + total_gpus(Tail(info))

RECURSIVE allocated_gpus(_)
allocated_gpus(info) ==
    IF info = <<>> THEN 0 ELSE Head(info).allocated + allocated_gpus(Tail(info))

get_gpu_info(nodes) ==
    LET info == node_info(nodes)
    IN  [cluster |->
             [total |-> total_gpus(info),
              allocated |-> allocated_gpus(info),
              available |-> total_gpus(info) - allocated_gpus(info)],
         nodes |-> info]

get_gpus_available(p, tok) ==
    /\ Accepts(p)
    /\ IF authenticate(tok) # "ok" THEN
           AuthFailed(tok) /\ UNCHANGED gpu_info
       ELSE
           gpu_info' = {get_gpu_info(snapshot)} /\ Reply(200, "ok")
    /\ UNCHANGED <<ledger, seq, disk, cluster, issued, workers, released,
                   snapshot, logs, orchestrator>>

\* What the orchestrator can answer: the nodes n1 and n2 or some of them,
\* each with or without a GPU capacity and with pods whose containers
\* request a GPU or do not, up to MaxContainers containers on a node.
NodeNames == <<"n1", "n2">>

Capacities ==
    { "cpu" :> <<"8">>,
      ("cpu" :> <<"8">>) @@ (gpu_resource :> <<"2">>),
      ("cpu" :> <<"8">>) @@ (gpu_resource :> <<"1", "0">>) }

Containers ==
    { [requests |-> "cpu" :> <<"1">>],
      [requests |-> ("cpu" :> <<"1">>) @@ (gpu_resource :> <<"1">>)] }

SnapshotPods ==
    UNION {[1..n -> [containers : UNION {[1..k -> Containers] :
                                            k \in 1..MaxContainers}]] :
             n \in 0..MaxContainers}

RECURSIVE count_containers(_)
count_containers(node_pods) ==
    IF node_pods = <<>> THEN 0
    ELSE Len(Head(node_pods).containers) + count_containers(Tail(node_pods))

SnapshotNodes ==
    [name : {NodeNames[i] : i \in DOMAIN NodeNames},
     capacity : Capacities,
     pods : {ps \in SnapshotPods : count_containers(ps) <= MaxContainers}]

Snapshots ==
    UNION {{nodes \in [1..n -> SnapshotNodes] :
                \A i \in 1..n : nodes[i].name = NodeNames[i]} :
             n \in 0..Len(NodeNames)}

----------------------------------------------------------------------------
(* The log channel: get_logs_realtime of app/routes.py, auth_ws and        *)
(* get_pod_logs_realtime of app/views.py.  One channel is followed from    *)
(* its opening to the end of its handler.                                  *)

\* auth_ws: "raise" where jwt.decode or user.session_key raises
auth_ws(tok, pod_id) ==
    IF authenticate(tok) \in {"decode", "nouser"} THEN "raise"
    ELSE IF authenticate(tok) = "403" THEN "False"
    ELSE IF pod_id \notin {pod.id : pod \in OfUser(pods, tok.id)} THEN "False"
    ELSE "True"

\* if not await auth_ws(...): close(code=1008); except: close(code=1011);
\* 0 where the channel stays open
close_code(verdict) ==
    CASE verdict = "False" -> 1008
      [] verdict = "raise" -> 1011
      [] verdict = "True" -> 0

\* get_logs_realtime up to the call of get_pod_logs_realtime: the channel is
\* accepted, the client sends its token, auth_ws decides.
get_logs_realtime(pod_id, tok) ==
    /\ ws = NoChannel
    /\ LET code == close_code(auth_ws(tok, pod_id))
       IN  ws' = [pc |-> IF code = 0 THEN "authorized" ELSE "closed",
                  pod_id |-> pod_id, tok |-> tok, client |-> "open",
                  code |-> code]
    /\ UNCHANGED <<ledger, seq, disk, cluster, issued, workers, last, released,
                   served, gpus, process, orchestrator>>

\* get_pod_logs_realtime to the start of its loop: the pod is read again, by
\* its id alone, in a transaction of its own, and kubectl logs -f is
\* started.  [...][0] raises IndexError when the pod row is gone, which the
\* except clause of get_logs_realtime answers with close(code=1011).
get_pod_logs_realtime ==
    /\ ws.pc = "authorized"
    /\ LET pod == ById(pods, ws.pod_id)
       IN  IF pod = None THEN
               /\ ws' = [ws EXCEPT !.pc = "closed", !.code = 1011]
               /\ UNCHANGED process
           ELSE
               /\ ws' = [ws EXCEPT !.pc = "readline"]
               /\ process' = [state |-> "running", stdout |-> 0,
                              name |-> pod.name]
    /\ UNCHANGED <<ledger, seq, disk, cluster, issued, workers, last, released,
                   served, gpus, orchestrator>>

\* One turn of the loop: await process.stdout.readline() returns a line,
\* which is sent, or nothing at the end of the stream.  Sending to a client
\* that has closed raises, and the except clause closes with 1011.
readline ==
    /\ ws.pc = "readline"
    /\ \/ /\ process.stdout > 0
          /\ process' = [process EXCEPT !.stdout = process.stdout - 1]
          /\ IF ws.client = "open" THEN UNCHANGED ws
             ELSE ws' = [ws EXCEPT !.pc = "finally", !.code = 1011]
       \/ /\ process.stdout = 0
          /\ process.state = "exited"
          /\ ws' = [ws EXCEPT !.pc = "finally"]
          /\ UNCHANGED process
    /\ UNCHANGED <<ledger, seq, disk, cluster, issued, workers, last, released,
                   served, gpus, orchestrator>>

\* The task is cancelled while it awaits readline: CancelledError is no
\* Exception, so the except clause is passed over and the finally clause runs.
cancel ==
    /\ ws.pc = "readline"
    /\ ws' = [ws EXCEPT !.pc = "finally"]
    /\ UNCHANGED <<ledger, seq, disk, cluster, issued, workers, last, released,
                   served, gpus, process, orchestrator>>

\* finally: if process.returncode is None: process.terminate(), and the
\* handler goes on to wait; otherwise it returns.
get_pod_logs_realtime_finally ==
    /\ ws.pc = "finally"
    /\ IF process.state = "running"
       THEN /\ process' = [process EXCEPT !.state = "terminating"]
            /\ ws' = [pc |-> "wait_for", pod_id |-> ws.pod_id, tok |-> ws.tok,
                      client |-> ws.client, code |-> ws.code, waited |-> 0]
       ELSE /\ UNCHANGED process
            /\ ws' = [ws EXCEPT !.pc = "closed"]
    /\ UNCHANGED <<ledger, seq, disk, cluster, issued, workers, last, released,
                   served, gpus, orchestrator>>

\* Variant of the timeout's handler: except asyncio.TimeoutError: pass
on_timeout_pass(proc) == proc

\* except asyncio.TimeoutError: process.kill()
on_timeout(proc) == [proc EXCEPT !.state = "killed"]

\* await asyncio.wait_for(process.wait(), timeout=5): it returns when the
\* subprocess has exited; a time unit passes while it has not; after
\* GraceTimeout of them TimeoutError is raised.  Then the handler returns.
wait_for ==
    /\ ws.pc = "wait_for"
    /\ IF process.state # "terminating" THEN
           ws' = [ws EXCEPT !.pc = "closed"] /\ UNCHANGED process
       ELSE IF ws.waited < GraceTimeout THEN
           ws' = [ws EXCEPT !.waited = ws.waited + 1] /\ UNCHANGED process
       ELSE
           ws' = [ws EXCEPT !.pc = "closed"] /\ process' = on_timeout(process)
    /\ UNCHANGED <<ledger, seq, disk, cluster, issued, workers, last, released,
                   served, gpus, orchestrator>>

\* The surroundings of the handler: the live pod writes a log line, kubectl
\* logs ends by itself or on the signal, the client closes its side.
kubectl_logs_line ==
    /\ process.state = "running"
    /\ process.name \in k8s_pods
    /\ process.stdout < MaxLines
    /\ process' = [process EXCEPT !.stdout = process.stdout + 1]
    /\ UNCHANGED <<ledger, seq, disk, cluster, issued, workers, last, released,
                   served, gpus, ws, orchestrator>>

kubectl_logs_exit ==
    /\ process.state = "running"
    /\ process' = [process EXCEPT !.state = "exited"]
    /\ UNCHANGED <<ledger, seq, disk, cluster, issued, workers, last, released,
                   served, gpus, ws, orchestrator>>

\* kubectl logs exits on the SIGTERM that terminate() has sent.
sigterm_exit ==
    /\ process.state = "terminating"
    /\ process' = [process EXCEPT !.state = "terminated"]
    /\ UNCHANGED <<ledger, seq, disk, cluster, issued, workers, last, released,
                   served, gpus, ws, orchestrator>>

client_close ==
    /\ ws.pc \in {"authorized", "readline", "finally", "wait_for"}
    /\ ws.client = "open"
    /\ ws' = [ws EXCEPT !.client = "closed"]
    /\ UNCHANGED <<ledger, seq, disk, cluster, issued, workers, last, released,
                   served, gpus, process, orchestrator>>

----------------------------------------------------------------------------
(* Specifications *)

Ids(table) == {r.id : r \in table} \cup {NULL}

AuthStep(p) ==
    \/ \E u \in Usernames, pw \in Passwords, tok \in Bearers :
           register(p, u, pw, tok)
    \/ \E u \in Usernames, pw \in Passwords : login(p, u, pw)
    \/ \E id \in Ids(users), tok \in Bearers : delete_user(p, id, tok)
    \/ \E tok \in Bearers : get_pods(p, tok)

ResourceStep(p) ==
    \/ \E name \in VolumeNames, tok \in Bearers :
           create_volume(p, name, "5Gi", tok)
    \/ \E id \in Ids(storages), tok \in Bearers : delete_volume(p, id, tok)
    \/ \E name \in VolumeNames, id \in Ids(storages), tok \in Bearers :
           create_pod(p, name, id, tok)
    \/ \E id \in Ids(pods), tok \in Bearers : recreate_pod(p, id, tok)
    \/ \E id \in Ids(pods), name \in EnvNames, value \in EnvValues,
          tok \in Bearers : add_pod_env(p, id, name, value, tok)
    \/ \E id \in Ids(pods), env \in Ids(pod_envs), tok \in Bearers :
           delete_pod_env(p, id, env, tok)

PortStep(p) ==
    \/ \E id \in Ids(pods), tok \in Bearers : delete_pod_children(p, id, tok)
    \/ delete_pod_files(p)
    \/ \E id \in Ids(pods), port \in InternalPorts, protocol \in Protocols,
          tok \in Bearers : add_exposed_port_to_pod(p, id, port, protocol, tok)
    \/ add_exposed_port_to_pod_max(p)
    \/ add_exposed_port_to_pod_flush(p)
    \/ \E id \in Ids(pods), port \in Ids(reserved_ports), tok \in Bearers :
           delete_exposed_port(p, id, port, tok)

\* NumWorkers requests at a time on the pods' exposed ports.
PortNext == \E p \in Workers : PortStep(p)

Spec == InitSeeded /\ [][PortNext]_vars

\* One request at a time on the pods' exposed ports.
PortSpec == InitSeeded /\ [][PortStep(1)]_vars

\* One request at a time on the users and their credentials.
AuthSpec == Init /\ [][AuthStep(1)]_vars

\* register and login requests that start while the user table is empty,
\* NumWorkers at a time, and the steps that finish them.
BootstrapStep(p) ==
    \/ /\ users = {}
       /\ \E u \in Usernames, pw \in Passwords, tok \in Bearers :
              register_count(p, u, pw, tok)
    \/ /\ users = {}
       /\ \E u \in Usernames, pw \in Passwords : login_select(p, u, pw)
    \/ login_register(p)
    \/ register_flush(p)

BootstrapNext == \E p \in Workers : BootstrapStep(p)

\* The start on a fresh installation: no user yet.
InitFresh == Fresh /\ Empty /\ served = -1 /\ snapshot = <<>>
    /\ apply_returncode = 0

BootstrapSpec == InitFresh /\ [][BootstrapNext]_vars

EnvStep(p) ==
    \/ \E id \in Ids(pods), name \in EnvNames, value \in EnvValues,
          tok \in Bearers : add_pod_env(p, id, name, value, tok)
    \/ \E id \in Ids(pods), tok \in Bearers : recreate_pod(p, id, tok)

\* One request at a time on the pods, their exposed ports and their envs.
PodNext == PortStep(1) \/ EnvStep(1)

PodSpec == InitStocked /\ [][PodNext]_vars

\* One request at a time on the volumes and the pods that mount them.
VolumeSpec == InitStocked /\ [][ResourceStep(1)]_vars

\* The orchestrator starts or stops refusing what is applied.
kubectl_apply_turns ==
    /\ apply_returncode' = 1 - apply_returncode
    /\ UNCHANGED <<users, storages, pods, reserved_ports, pod_envs, seq, disk,
                   cluster, issued, workers, last, released, served, gpus,
                   logs, applies>>

\* The handlers that apply a manifest, one request at a time, against an
\* orchestrator whose apply may fail.
ApplyStep(p) ==
    \/ \E name \in VolumeNames, tok \in Bearers :
           create_volume(p, name, "5Gi", tok)
    \/ \E name \in VolumeNames, id \in Ids(storages), tok \in Bearers :
           create_pod(p, name, id, tok)
    \/ \E id \in Ids(pods), port \in InternalPorts, protocol \in Protocols,
          tok \in Bearers : add_exposed_port_to_pod(p, id, port, protocol, tok)
    \/ add_exposed_port_to_pod_max(p)
    \/ add_exposed_port_to_pod_flush(p)
    \/ kubectl_apply_turns

ApplySpec == InitStocked /\ [][ApplyStep(1)]_vars

\* delete_pod statement by statement, beside the requests that give a pod
\* its ports and envs; a request can end wherever it stands.
TeardownStep(p) ==
    \/ \E id \in Ids(pods), tok \in Bearers : delete_pod_children(p, id, tok)
    \/ delete_pod_remove(p)
    \/ delete_pod_kubectl(p)
    \/ delete_pod_commit(p)
    \/ \E id \in Ids(pods), port \in InternalPorts, protocol \in Protocols,
          tok \in Bearers : add_exposed_port_to_pod(p, id, port, protocol, tok)
    \/ add_exposed_port_to_pod_max(p)
    \/ add_exposed_port_to_pod_flush(p)
    \/ \E id \in Ids(pods), name \in EnvNames, value \in EnvValues,
          tok \in Bearers : add_pod_env(p, id, name, value, tok)
    \/ crash(p)

\* One request at a time.
TeardownSpec == InitStocked /\ [][TeardownStep(1)]_vars

\* One log channel, beside the delete_pod requests served meanwhile.
LogNext ==
    \/ \E pod_id \in Ids(pods), tok \in Bearers : get_logs_realtime(pod_id, tok)
    \/ get_pod_logs_realtime
    \/ readline
    \/ cancel
    \/ get_pod_logs_realtime_finally
    \/ wait_for
    \/ kubectl_logs_line
    \/ kubectl_logs_exit
    \/ sigterm_exit
    \/ client_close
    \/ \E id \in Ids(pods), tok \in Bearers : delete_pod_children(1, id, tok)
    \/ delete_pod_files(1)

LogSpec == InitSeeded /\ [][LogNext]_vars

\* The handler of the channel goes on whenever it can: the event loop runs
\* a task that is ready.  Log lines, the end of kubectl logs, the client's
\* close and a cancellation come or do not.
LogLiveSpec ==
    /\ LogSpec
    /\ WF_vars(get_pod_logs_realtime)
    /\ WF_vars(readline)
    /\ WF_vars(get_pod_logs_realtime_finally)
    /\ WF_vars(wait_for)

\* get_gpus_available on each answer of the orchestrator.
InitGpu == Seeded /\ Empty /\ served = -1 /\ snapshot \in Snapshots
    /\ apply_returncode = 0

GpuNext == \E tok \in Bearers : get_gpus_available(1, tok)

GpuSpec == InitGpu /\ [][GpuNext]_vars

\* One request at a time on every handler, the first MaxServed steps.
AllNext == PortStep(1) \/ ResourceStep(1) \/ AuthStep(1)

AllSpec == InitCounted /\ [][AllNext]_vars

----------------------------------------------------------------------------
(* Exposed ports: the properties *)

\* C1: whatever the interleaving of reserve (add_exposed_port_to_pod),
\* release (delete_exposed_port) and delete_pod, no two reserved_port rows
\* in the ledger hold the same external port.
C1_ExternalPortUnique ==
    \A r1, r2 \in reserved_ports :
        r1.external_port = r2.external_port => r1 = r2

\* Two rows are committed while a third reserve, which chose its port before
\* they were, still holds a port that is now taken.
C1_Witness ==
    /\ Cardinality(reserved_ports) >= 2
    /\ \E p \in Workers :
           /\ workers[p].pc = "flush"
           /\ \E r \in reserved_ports :
                  r.external_port = workers[p].port_to_reserve

\* Two reserves in flight that chose the same external port, which no
\* committed row holds yet, for pods and users that are still there.
Racing(p, q) ==
    /\ p # q
    /\ workers[p].pc = "flush"
    /\ workers[q].pc = "flush"
    /\ workers[p].port_to_reserve = workers[q].port_to_reserve
    /\ \A r \in reserved_ports :
           r.external_port # workers[p].port_to_reserve
    /\ \A w \in {workers[p], workers[q]} :
           /\ \E pod \in pods : pod.id = w.pod.id
           /\ \E u \in users : u.id = w.user_id

\* A reserve in flight whose chosen external port a committed row holds.
Beaten(q) ==
    /\ workers[q].pc = "flush"
    /\ \E r \in reserved_ports :
           r.external_port = workers[q].port_to_reserve

\* C2: of two reserves that computed the same external port from the same
\* snapshot, the one that inserts first commits a row with that port and
\* leaves the other beaten; a beaten reserve ends in the uniqueness conflict
\* (an exception, status 500) and changes nothing.
C2_OneCommitsOtherConflicts ==
    [][/\ \A p, q \in Workers :
             Racing(p, q) /\ add_exposed_port_to_pod_flush(p) =>
                 /\ last' = [status |-> 200, why |-> "ok"]
                 /\ \E r \in reserved_ports' \ reserved_ports :
                        /\ r.external_port = workers[p].port_to_reserve
                        /\ r.pod_id = workers[p].pod.id
                 /\ Beaten(q)'
       /\ \A q \in Workers :
             Beaten(q) /\ add_exposed_port_to_pod_flush(q) =>
                 /\ last' = [status |-> 500, why |-> "UniqueViolation"]
                 /\ UNCHANGED <<ledger, disk, cluster>>]_vars

\* The loser of a race has just ended in the conflict; the winner's row stays.
C2_Witness ==
    /\ last = [status |-> 500, why |-> "UniqueViolation"]
    /\ Cardinality(reserved_ports) = 1
    /\ \A p \in Workers : workers[p] = Idle

\* C3: a reserve chooses 1 + the largest external port of all committed rows,
\* of all pods and users, that exist at the moment it reads them, or 30001
\* when there is none, and a successful reserve assigns the port it chose:
\* 30001 first on an empty ledger, 30002 next.
C3_NextAboveMax ==
    [][/\ \A p \in Workers :
             add_exposed_port_to_pod_max(p)
             => LET before == {r.external_port : r \in reserved_ports}
                IN  workers'[p].port_to_reserve =
                        IF before = {} THEN 30001
                        ELSE 1 + CHOOSE m \in before :
                                     \A x \in before : x <= m
       /\ \A p \in Workers :
             add_exposed_port_to_pod_flush(p) /\ last'.status = 200 =>
                 LET new == reserved_ports' \ reserved_ports
                 IN  /\ Cardinality(new) = 1
                     /\ \A r \in new :
                            r.external_port = workers[p].port_to_reserve]_vars

\* The first reserve got 30001 and the next one 30002.
C3_Witness ==
    /\ \E r \in reserved_ports : r.id = 1 /\ r.external_port = 30001
    /\ \E r \in reserved_ports : r.id = 2 /\ r.external_port = 30002

\* C4: over any sequence of reserves, releases and pod deletions served one
\* at a time, a released external port is not assigned again while a row
\* with a higher external port exists, and a reserve on a ledger without
\* rows assigns 30001 again.
C4_ReleasedNotReassigned ==
    [][\A p \in Workers :
          add_exposed_port_to_pod_flush(p) /\ last'.status = 200 =>
              \A r \in reserved_ports' \ reserved_ports :
                  /\ \A f \in released :
                         (\E w \in reserved_ports :
                              w.external_port > f.external_port)
                             => r.external_port # f.external_port
                  /\ reserved_ports = {} => r.external_port = 30001]_vars

\* Row r was inserted after a port was released and while row w, which
\* holds a higher port, existed.
C4_Witness ==
    \E f \in released :
        \E r, w \in reserved_ports :
            /\ r.id >= f.next_id
            /\ w.id < r.id
            /\ w.external_port > f.external_port

\* C5: a reserve for an internal port that the caller's pod has already
\* exposed is refused with the invalid-request reply (status 400) and adds
\* no row, writes no manifest and runs no orchestrator command; a reserve
\* for an internal port that only another pod has exposed is accepted.
C5_DuplicateInternalPort ==
    [][/\ \A p \in Workers, id \in Ids(pods), port \in InternalPorts,
             protocol \in Protocols, tok \in Bearers :
             /\ add_exposed_port_to_pod(p, id, port, protocol, tok)
             /\ authenticate(tok) = "ok"
             /\ \E pod \in pods : pod.id = id /\ pod.user_id = tok.id
             => IF \E r \in reserved_ports : r.pod_id = id /\ r.port = port
                THEN /\ last' = [status |-> 400, why |-> "duplicate"]
                     /\ UNCHANGED <<ledger, disk, cluster, workers>>
                ELSE /\ workers'[p].pc = "max"
                     /\ workers'[p].pod.id = id
                     /\ workers'[p].port = port
       /\ \A p \in Workers :
             add_exposed_port_to_pod_flush(p) =>
                 /\ last' = [status |-> 200, why |-> "ok"]
                 /\ \E r \in reserved_ports' \ reserved_ports :
                        /\ r.pod_id = workers[p].pod.id
                        /\ r.port = workers[p].port]_vars

\* A duplicate has just been refused while two pods expose the same
\* internal port.
C5_Witness ==
    /\ last = [status |-> 400, why |-> "duplicate"]
    /\ \E r1, r2 \in reserved_ports :
           r1.port = r2.port /\ r1.pod_id # r2.pod_id

----------------------------------------------------------------------------
(* Credentials and ownership: the properties *)

\* The credential is signed with the process secret and the hash of its key
\* is the one stored on its user's row.
Valid(tok) ==
    /\ tok.sig = "SECRET_KEY"
    /\ \E u \in users :
           u.id = tok.id /\ u.session_key = <<"bcrypt", tok.key>>

\* A later credential has been issued to the same user.
Superseded(tok) == \E t \in issued : t.id = tok.id /\ t.key > tok.key

\* The step serves a request, other than register and login, that presents tok.
Presents(p, tok) ==
    \/ \E id \in Ids(users) : delete_user(p, id, tok)
    \/ get_pods(p, tok)
    \/ \E name \in VolumeNames : create_volume(p, name, "5Gi", tok)
    \/ \E id \in Ids(storages) : delete_volume(p, id, tok)
    \/ \E name \in VolumeNames, id \in Ids(storages) :
           create_pod(p, name, id, tok)
    \/ \E id \in Ids(pods) :
           \/ recreate_pod(p, id, tok)
           \/ delete_pod_children(p, id, tok)
           \/ \E name \in EnvNames, value \in EnvValues :
                  add_pod_env(p, id, name, value, tok)
           \/ \E env \in Ids(pod_envs) : delete_pod_env(p, id, env, tok)
           \/ \E port \in InternalPorts, protocol \in Protocols :
                  add_exposed_port_to_pod(p, id, port, protocol, tok)
           \/ \E port \in Ids(reserved_ports) :
                  delete_exposed_port(p, id, port, tok)

\* The step serves a register request that presents tok.
PresentsToRegister(p, tok) ==
    \E u \in Usernames, pw \in Passwords : register(p, u, pw, tok)

\* The request is turned away by the credential check and changes nothing.
TurnedAway ==
    /\ last'.why \in {"credentials", "AttributeError"}
    /\ last'.status \in {403, 500}
    /\ UNCHANGED <<ledger, disk, cluster, workers, issued>>

\* C6: once a later credential has been issued to a user (by a login or a
\* registration), every earlier credential of that user fails the credential
\* check of every operation, so at most one credential per user is accepted
\* at any time: the one issued last.
C6_OnlyLatestCredential ==
    [][/\ (\A t \in issued : Superseded(t) => authenticate(t) # "ok")'
       /\ \/ TurnedAway
          \/ \A p \in Workers, t \in issued :
                 Superseded(t) =>
                     /\ ~Presents(p, t)
                     /\ users # {} => ~PresentsToRegister(p, t)]_vars

\* A request has just been refused for its credential while the user whose
\* key was minted last holds an earlier credential too.
C6_Witness ==
    /\ last = [status |-> 403, why |-> "credentials"]
    /\ \E u \in users :
           /\ u.session_key = <<"bcrypt", seq.key - 1>>
           /\ \E t \in issued : t.id = u.id /\ t.key < seq.key - 1

\* C7: no operation other than login and the first-ever registration changes
\* a ledger row, writes or removes a manifest file or runs an orchestrator
\* command unless the credential presented is signed with the process secret
\* and its key matches the hash stored on its user's row.
C7_CredentialGate ==
    [][\/ UNCHANGED <<ledger, disk, cluster, workers>>
       \/ \A p \in Workers, tok \in Bearers :
              ~Valid(tok) =>
                  /\ ~Presents(p, tok)
                  /\ seq.user > 1 => ~PresentsToRegister(p, tok)]_vars

\* C8: register creates a user without a credential only when no user
\* exists, and that user is admin (login on an empty table does the same);
\* when a user exists, register succeeds only with the valid credential of
\* an admin and the user it creates is not admin; a register that is
\* rejected creates no user and rotates no session key.
C8_RegisterRules ==
    [][\A p \in Workers :
          /\ \A u \in Usernames, pw \in Passwords, tok \in Bearers :
                 register(p, u, pw, tok) =>
                     LET new == users' \ users
                         admin == \E a \in users : a.id = tok.id /\ a.is_admin
                     IN  /\ users \subseteq users'
                         /\ Cardinality(new) = IF last'.status = 200 THEN 1 ELSE 0
                         /\ last'.status = 200 =>
                                /\ users # {} => Valid(tok) /\ admin
                                /\ \A n \in new :
                                       /\ n.username = u
                                       /\ n.is_admin = (users = {})
                         /\ last'.status # 200 => UNCHANGED <<users, issued, seq>>
          /\ \A u \in Usernames, pw \in Passwords :
                 login(p, u, pw) =>
                     \A n \in users' :
                         (\A o \in users : o.id # n.id) =>
                             users = {} /\ n.is_admin]_vars

\* The first user, registered on the empty table, is admin, the second one,
\* registered by the first, is not, and the register that the second one
\* asked for has just been rejected.
C8_Witness ==
    /\ last = [status |-> 403, why |-> "admin"]
    /\ \E a, b \in users :
           /\ a.id = 1 /\ a.username # "alice" /\ a.is_admin
           /\ b.id = 2 /\ ~b.is_admin

\* The row with this id is in the table and belongs to the user.
Owns(uid, table, id) == \E r \in table : r.id = id /\ r.user_id = uid

\* The request is refused as forbidden and changes nothing.
Forbidden ==
    /\ last' = [status |-> 403, why |-> "owner"]
    /\ UNCHANGED <<ledger, disk, cluster, workers>>

\* C9: delete_pod, recreate_pod, add_exposed_port_to_pod, delete_exposed_port,
\* add_pod_env, delete_pod_env and delete_volume, called with a valid
\* credential for a target id that the caller does not own, return
\* Forbidden (status 403) and leave every ledger row, manifest file and
\* orchestrator object as it was.
C9_NotOwnedForbidden ==
    [][\/ Forbidden
       \/ \A p \in Workers, tok \in issued :
              Valid(tok) =>
                  /\ \A id \in Ids(pods) :
                         ~Owns(tok.id, pods, id) =>
                             /\ ~delete_pod_children(p, id, tok)
                             /\ ~recreate_pod(p, id, tok)
                             /\ \A port \in InternalPorts, protocol \in Protocols :
                                    ~add_exposed_port_to_pod(p, id, port, protocol,
                                                             tok)
                             /\ \A name \in EnvNames, value \in EnvValues :
                                    ~add_pod_env(p, id, name, value, tok)
                  /\ \A id \in Ids(pods), port \in Ids(reserved_ports) :
                         (~Owns(tok.id, pods, id)
                          \/ ~Owns(tok.id, reserved_ports, port)) =>
                             ~delete_exposed_port(p, id, port, tok)
                  /\ \A id \in Ids(pods), env \in Ids(pod_envs) :
                         (~Owns(tok.id, pods, id)
                          \/ ~Owns(tok.id, pod_envs, env)) =>
                             ~delete_pod_env(p, id, env, tok)
                  /\ \A id \in Ids(storages) :
                         ~Owns(tok.id, storages, id) =>
                             ~delete_volume(p, id, tok)]_vars

\* A request has just been refused as forbidden while the ledger holds
\* rows of the pods.
C9_Witness ==
    /\ last = [status |-> 403, why |-> "owner"]
    /\ reserved_ports \cup pod_envs # {}

\* The user on whose behalf the step runs.
ActsFor(p, uid) ==
    IF workers[p] = Idle
    THEN \E tok \in issued :
             /\ tok.id = uid
             /\ Valid(tok)
             /\ Presents(p, tok) \/ PresentsToRegister(p, tok)
    ELSE workers[p].pod.user_id = uid

\* The manifest files and cluster objects of the pods, ports and volumes of the
\* users other than uid.
FilesOfOthers(uid) ==
    {yaml(pod.name) : pod \in {x \in pods : x.user_id # uid}}
    \cup {svc_yaml(pod.name, r.port) :
            <<pod, r>> \in {x \in pods \X reserved_ports :
                               x[1].user_id # uid /\ x[2].pod_id = x[1].id}}

SvcsOfOthers(uid) ==
    {svc_name(pod.name, r.port) :
       <<pod, r>> \in {x \in pods \X reserved_ports :
                          x[1].user_id # uid /\ x[2].pod_id = x[1].id}}

\* What belongs to the users other than uid is after the step as it was.
OthersKept(uid) ==
    /\ \A table \in {<<storages, storages'>>, <<pods, pods'>>,
                       <<reserved_ports, reserved_ports'>>,
                       <<pod_envs, pod_envs'>>} :
           \A r \in table[1] : r.user_id # uid => r \in table[2]
    /\ \A f \in FilesOfOthers(uid) \cap pod_files : f \in pod_files'
    /\ \A s \in storages :
           s.user_id # uid =>
               /\ yaml(s.name) \in volume_files => yaml(s.name) \in volume_files'
               /\ s.name \in k8s_pvcs => s.name \in k8s_pvcs'
    /\ \A pod \in pods :
           pod.user_id # uid /\ pod.name \in k8s_pods => pod.name \in k8s_pods'
    /\ \A o \in SvcsOfOthers(uid) \cap k8s_svcs : o \in k8s_svcs'

\* C10: a step that runs on behalf of user A deletes or changes no ledger
\* row, manifest file or cluster object of a pod, volume, port or env that
\* another user owns, the removal of manifest files by delete_pod included.
C10_OthersUntouched ==
    [][\A p \in Workers, uid \in {u.id : u \in users} :
          OthersKept(uid) \/ ~ActsFor(p, uid)]_vars

----------------------------------------------------------------------------
(* Pods and volumes: the properties *)

\* The pod ids a caller asks for: those of the stocked ledger, and one that
\* no pod has.
PodIds == {0, 1, 2}

\* Nothing of the pod is left: no row of it or for it, no manifest file.
NothingLeft(pod) ==
    /\ \A r \in pods' : r.id # pod.id
    /\ \A r \in reserved_ports' \cup pod_envs' : r.pod_id # pod.id
    /\ yaml(pod.name) \notin pod_files'
    /\ \A port \in InternalPorts : svc_yaml(pod.name, port) \notin pod_files'

\* C11: after a successful delete_pod by the pod's owner no pod row,
\* reserved_port row, pod_env row or manifest file of that pod remains, and
\* a delete_pod for an id whose pod is gone is refused (status 403) and
\* changes no ledger row, manifest file or cluster object.
C11_DeletePodLeavesNothing ==
    [][/\ \A p \in Workers :
             delete_pod_files(p) /\ last'.status = 200 =>
                 NothingLeft(workers[p].pod)
       /\ \/ Forbidden
          \/ \A p \in Workers, id \in PodIds, tok \in issued :
                 Valid(tok) /\ (\A r \in pods : r.id # id) =>
                     ~delete_pod_children(p, id, tok)]_vars

\* Pod "a" had an exposed port and an env; it has been deleted with them,
\* and a further delete_pod of its owner has just been refused.
C11_Witness ==
    /\ last = [status |-> 403, why |-> "owner"]
    /\ \A r \in pods : r.id # 1
    /\ seq.env > 1 /\ pod_envs = {}
    /\ \E f \in released : f.next_id > 1
    /\ \A r \in reserved_ports : r.pod_id # 1
    /\ \A f \in pod_files : ~re_match(<<"a">>, f)

\* C12: recreate_pod by the pod's owner is answered with success, the pod's
\* manifest and its live pod are there afterwards (re-applied with the
\* stored fields and the pod's envs), and the pod row and every other ledger
\* row is as it was.
C12_RecreateReapplies ==
    [][\A p \in Workers, id \in Ids(pods), tok \in issued :
          /\ recreate_pod(p, id, tok)
          /\ Valid(tok)
          /\ Owns(tok.id, pods, id)
          => /\ last'.status = 200
             /\ \E pod \in pods' :
                    /\ pod.id = id
                    /\ pod.name \in k8s_pods'
                    /\ yaml(pod.name) \in pod_files'
             /\ UNCHANGED ledger]_vars

\* C13: create_pod with a valid credential, a name no pod has and no volume
\* or a volume of the caller is answered with success, and afterwards a pod
\* row of the caller with the sanitized name and that volume exists and its
\* manifest has been written and applied.
C13_CreatePodSucceeds ==
    [][\A p \in Workers, name \in VolumeNames, id \in Ids(storages),
          tok \in issued :
          /\ create_pod(p, name, id, tok)
          /\ Valid(tok)
          /\ \A pod \in pods : pod.name # sanitize(name)
          /\ id # 0 => Owns(tok.id, storages, id)
          => /\ last'.status = 200
             /\ \E pod \in pods' \ pods :
                    /\ pod.name = sanitize(name)
                    /\ pod.user_id = tok.id
                    /\ pod.storage_id = id
                    /\ pod.name \in k8s_pods'
                    /\ yaml(pod.name) \in pod_files']_vars

\* C14: create_pod with a valid credential, a name no pod has and the id of
\* a volume that another user owns is not rejected: it is answered with
\* success and creates the pod without a volume (storage_id null).
C14_ForeignVolumeIgnored ==
    [][\A p \in Workers, name \in VolumeNames, id \in Ids(storages),
          tok \in issued :
          /\ create_pod(p, name, id, tok)
          /\ Valid(tok)
          /\ \A pod \in pods : pod.name # sanitize(name)
          /\ id # 0 /\ ~Owns(tok.id, storages, id)
          => /\ last'.status = 200
             /\ \E pod \in pods' \ pods :
                    /\ pod.name = sanitize(name)
                    /\ pod.user_id = tok.id
                    /\ pod.storage_id = NULL]_vars

\* C15: in every reachable state every pod row with a non-null storage_id
\* references a storage row that exists and belongs to the pod's user,
\* whatever create_pod, create_volume and delete_volume calls were served,
\* the delete_volume of a volume that a pod still mounts included.
C15_PodVolumeOwned ==
    \A pod \in pods :
        pod.storage_id # NULL =>
            \E s \in storages :
                s.id = pod.storage_id /\ s.user_id = pod.user_id

\* The delete_volume of the volume that a pod mounts has just failed on the
\* foreign key, after it had removed the volume's manifest.
C15_Witness ==
    /\ last = [status |-> 500, why |-> "ForeignKeyViolation"]
    /\ \E pod \in pods, s \in storages :
           /\ pod.storage_id = s.id
           /\ yaml(s.name) \notin volume_files

\* C16: a successful delete_exposed_port deletes exactly the reserved_port
\* row it names and removes the service object and the manifest file named
\* {pod name}-{internal port} of the pod that the row belongs to; no other
\* row, manifest file or service object changes, so that no service object
\* outlives the row it was created for.
C16_ReleaseRemovesItsService ==
    [][\A p \in Workers, pod_id \in Ids(pods), port_id \in Ids(reserved_ports),
          tok \in issued :
          delete_exposed_port(p, pod_id, port_id, tok) /\ last'.status = 200 =>
              \E r \in reserved_ports, pod \in pods :
                  /\ r.id = port_id
                  /\ pod.id = r.pod_id
                  /\ reserved_ports' = reserved_ports \ {r}
                  /\ pod_files' = pod_files \ {svc_yaml(pod.name, r.port)}
                  /\ k8s_svcs' = k8s_svcs \ {svc_name(pod.name, r.port)}
                  /\ UNCHANGED <<users, storages, pods, pod_envs, volume_files,
                                 k8s_pods, k8s_pvcs>>]_vars

----------------------------------------------------------------------------
(* GPU accounting: the properties *)

\* The number that a string of decimal digits denotes.
Denotes(s) == CHOOSE n \in 0..99 : decimal(n) = s

\* The nodes of the orchestrator's answer that expose a GPU capacity.
GpuNodes == {i \in DOMAIN snapshot : gpu_resource \in DOMAIN snapshot[i].capacity}

\* The sum of the second components of a set of pairs.
RECURSIVE SumOf(_)
SumOf(S) ==
    IF S = {} THEN 0
    ELSE LET x == CHOOSE y \in S : TRUE IN x[2] + SumOf(S \ {x})

\* C of node i: its GPU capacity.  R of node i: the GPU requests of the
\* containers of the pods scheduled on it.
Capacity(i) == Denotes(snapshot[i].capacity[gpu_resource])

Requested(i) ==
    LET ps == snapshot[i].pods
    IN  SumOf({<<<<j, k>>, Denotes(ps[j].containers[k].requests[gpu_resource])>> :
                 <<j, k>> \in {jk \in (DOMAIN ps) \X (1..MaxContainers) :
                     /\ jk[2] \in DOMAIN ps[jk[1]].containers
                     /\ gpu_resource \in
                            DOMAIN ps[jk[1]].containers[jk[2]].requests}})

\* C17: whatever the orchestrator answers, the reply of get_gpu_info has one
\* entry for each node that exposes a GPU capacity and none for the others,
\* with total = the capacity C, allocated = the sum R of the GPU requests of
\* the containers of the pods on that node and available = C - R; and the
\* cluster figures are the sums of the nodes' figures, with
\* cluster.available = cluster.total - cluster.allocated.
C17_GpuFigures ==
    \A info \in gpu_info :
        /\ Len(info.nodes) = Cardinality(GpuNodes)
        /\ \A i \in GpuNodes :
               \E e \in DOMAIN info.nodes :
                   info.nodes[e] =
                       [node |-> snapshot[i].name, total |-> Capacity(i),
                        allocated |-> Requested(i),
                        available |-> Capacity(i) - Requested(i)]
        /\ info.cluster.total = SumOf({<<i, Capacity(i)>> : i \in GpuNodes})
        /\ info.cluster.allocated = SumOf({<<i, Requested(i)>> : i \in GpuNodes})
        /\ info.cluster.available =
               SumOf({<<i, Capacity(i) - Requested(i)>> : i \in GpuNodes})
        /\ info.cluster.available = info.cluster.total - info.cluster.allocated

\* The reply for two GPU nodes: one of capacity 10 with two pods that
\* request a GPU each, the other of capacity 2 with one such container
\* beside one that requests none.
C17_Witness ==
    /\ Len(snapshot) = 2
    /\ Len(snapshot[1].pods) = 2
    /\ Len(snapshot[2].pods) = 1 /\ Len(snapshot[2].pods[1].containers) = 2
    /\ \E info \in gpu_info :
           /\ info.nodes =
                  <<[node |-> "n1", total |-> 10, allocated |-> 2, available |-> 8],
                    [node |-> "n2", total |-> 2, allocated |-> 1, available |-> 1]>>
           /\ info.cluster = [total |-> 12, allocated |-> 3, available |-> 9]

----------------------------------------------------------------------------
(* The log channel: the properties *)

\* C18: a log channel opened with a credential that is not valid or for a
\* pod that the caller does not own is closed with the unauthorized code
\* (1008) and no subprocess is started for it; a subprocess is started only
\* on a channel that has passed the credential check and the ownership check.
C18_NoReaderUnlessAuthorized ==
    [][/\ \A pod_id \in Ids(pods), tok \in Bearers :
             /\ get_logs_realtime(pod_id, tok)
             /\ ~Valid(tok) \/ ~Owns(tok.id, pods, pod_id)
             => /\ ws'.pc = "closed"
                /\ ws'.code = 1008
       /\ process' # process /\ process = NoProcess =>
              /\ ws.pc = "authorized"
              /\ ws.code = 0
       /\ ws.pc = "closed" => process' = process]_vars

\* C19: when the client has closed its side of the channel while the
\* subprocess is running, the subprocess is terminated in the end, by
\* terminate() or by kill(), also when no further log line comes.
C19_ReaderStopped ==
    (ws.client = "closed" /\ process.state = "running")
        ~> (process.state # "running")

----------------------------------------------------------------------------
(* Orchestrator failures: the properties *)

\* C20: an operation whose orchestrator command exits non-zero reports a
\* failure to the caller, never success: here the delete of the live pod by
\* delete_pod and the delete of the service by delete_exposed_port, which
\* exit non-zero when the object is not there.
C20_UpstreamFailureReported ==
    [][/\ \A p \in Workers :
             /\ delete_pod_files(p)
             /\ kubectl_delete_returncode(k8s_pods, workers[p].pod.name) # 0
             => last'.status # 200
       /\ \A p \in Workers, pod \in pods, r \in reserved_ports, tok \in issued :
             /\ delete_exposed_port(p, pod.id, r.id, tok)
             /\ reserved_ports' # reserved_ports
             /\ kubectl_delete_returncode(k8s_svcs, svc_name(pod.name, r.port)) # 0
             => last'.status # 200]_vars

----------------------------------------------------------------------------
(* Users: the properties *)

\* C21: a user row is removed only by a delete_user that presents the valid
\* credential of an admin and names a user other than that admin; a
\* delete_user by a non-admin or with an invalid credential removes no user.
C21_OnlyAdminRemovesOther ==
    [][\A u \in users :
          (\A v \in users' : v.id # u.id) =>
              \E p \in Workers, tok \in Bearers :
                  /\ delete_user(p, u.id, tok)
                  /\ Valid(tok)
                  /\ ById(users, tok.id).is_admin
                  /\ u.id # tok.id]_vars

----------------------------------------------------------------------------
(* Teardown: the properties *)

\* The manifest files of the pod: its own and those of its services.
ManifestsOf(pod) ==
    {yaml(pod.name)} \cup {svc_yaml(pod.name, port) : port \in InternalPorts}

\* C22: in every delete_pod, when the command that deletes the live pod is
\* issued, every reserved_port row and pod_env row of the pod has been
\* deleted and every manifest file of the pod has been removed; and when the
\* pod row is deleted, the manifest files have been removed.
C22_TeardownOrder ==
    [][/\ \A p \in Workers :
             delete_pod_kubectl(p) =>
                 /\ \A r \in reserved_ports \cup pod_envs :
                        r.pod_id # workers[p].pod.id
                 /\ (workers[p].reserved_ports \cup workers[p].envs)
                        \cap (reserved_ports \cup pod_envs) = {}
                 /\ ManifestsOf(workers[p].pod) \cap pod_files = {}
       /\ \A pod \in pods \ pods' : ManifestsOf(pod) \cap pod_files = {}]_vars

\* The live pod "a" has just been deleted by a delete_pod that found a port
\* and an env of the pod; the pod row is still there.
C22_Witness ==
    \E p \in Workers :
        /\ workers[p].pc = "commit"
        /\ workers[p].pod.id = 1
        /\ workers[p].reserved_ports # {}
        /\ workers[p].envs # {}
        /\ workers[p].pod \in pods
        /\ workers[p].pod.name \notin k8s_pods

\* The step ends a delete_pod of worker p without success: by an exception
\* or because the request ends where it stands.
Interrupted(p) ==
    /\ workers[p] # Idle
    /\ workers[p].op = "delete_pod"
    /\ workers'[p] = Idle
    /\ last'.status # 200

\* C23: an operation changes the ledger in one transaction, so that an
\* operation that is interrupted (by a crash or an exception) leaves the
\* ledger as it was before the operation or as it is after the whole
\* operation: an interrupted delete_pod never leaves reserved_port or
\* pod_env rows of the pod deleted while the pod row is still there.
C23_InterruptedLeavesPreOrPost ==
    [][\A p \in Workers :
          Interrupted(p) =>
              \/ workers[p].reserved_ports \cup workers[p].envs = {}
              \/ \A r \in pods' : r.id # workers[p].pod.id]_vars

\* The manifest files and the service objects that the ledger accounts for.
LedgerManifests ==
    {yaml(pod.name) : pod \in pods}
    \cup {svc_yaml(pod.name, r.port) :
            <<pod, r>> \in {x \in pods \X reserved_ports : x[2].pod_id = x[1].id}}

LedgerServices ==
    {svc_name(pod.name, r.port) :
       <<pod, r>> \in {x \in pods \X reserved_ports : x[2].pod_id = x[1].id}}

\* C24: whenever no request is in progress, also after a delete that failed
\* or was interrupted, every pod or service manifest file on disk and every
\* service object belongs to a pod row or a reserved_port row of the ledger:
\* none is left for a row that has been deleted.
C24_ManifestsWithinLedger ==
    (\A p \in Workers : workers[p] = Idle) =>
        /\ pod_files \subseteq LedgerManifests
        /\ k8s_svcs \subseteq LedgerServices

\* C25: a recreate_pod that has passed the ownership check and issued the
\* delete of the live pod goes on to apply a fresh manifest under the same
\* pod name: it never ends with the live pod deleted and not applied again,
\* and it changes no pod, pod_env, reserved_port or storage row.
C25_RecreateNeverLeavesDeleted ==
    [][\A p \in Workers, tok \in issued, pod \in pods :
          recreate_pod(p, pod.id, tok) /\ Valid(tok) /\ pod.user_id = tok.id =>
              /\ pod.name \in k8s_pods'
              /\ UNCHANGED <<pods, pod_envs, reserved_ports, storages>>]_vars

----------------------------------------------------------------------------
(* Exposed ports under concurrent requests: the properties *)

\* C28: whatever the interleaving of concurrent reserves
\* (add_exposed_port_to_pod) for the same pod and the same internal port,
\* beside reserves on other pods, no pod has two reserved_port rows with the
\* same internal port.
C28_InternalPortUniquePerPod ==
    \A r1, r2 \in reserved_ports :
        r1.pod_id = r2.pod_id /\ r1.port = r2.port => r1 = r2

----------------------------------------------------------------------------
(* A failing apply: the properties *)

----------------------------------------------------------------------------
(* The first registration under concurrent requests: the properties *)

\* C29: whatever the interleaving of register requests and of logins that
\* call register, all started on an empty user table, at most one user has
\* the admin flag.  register sets the flag exactly when it asks for no
\* credential, and no row is removed here, so the admins are the calls that
\* have succeeded without an admin credential.
C29_OneBootstrapAdmin ==
    Cardinality({u \in users : u.is_admin}) <= 1

----------------------------------------------------------------------------
(* Environment variables: the properties *)

\* C30: add_pod_env by the owner of the pod inserts one pod_env row, of that
\* pod and with the name and value given, and delete_pod_env by the owner
\* deletes the row that env_id names; both leave every other row, every
\* manifest file and the cluster as they were and issue no orchestrator
\* command, so the live pod keeps its environment.
C30_EnvChangesOnlyRows ==
    [][\A p \in Workers, tok \in issued, pod \in pods :
          Valid(tok) /\ pod.user_id = tok.id =>
              /\ \A name \in EnvNames, value \in EnvValues :
                     add_pod_env(p, pod.id, name, value, tok) =>
                         /\ \E row \in pod_envs' \ pod_envs :
                                /\ pod_envs' = pod_envs \cup {row}
                                /\ row.pod_id = pod.id
                                /\ row.user_id = tok.id
                                /\ row.name = name /\ row.value = value
                         /\ UNCHANGED <<users, storages, pods, reserved_ports,
                                        disk, cluster, applies>>
              /\ \A env \in pod_envs :
                     env.user_id = tok.id
                     /\ delete_pod_env(p, pod.id, env.id, tok) =>
                         /\ pod_envs' = pod_envs \ {env}
                         /\ UNCHANGED <<users, storages, pods, reserved_ports,
                                        disk, cluster, applies>>]_vars

\* A row was added and then deleted, and the pod it was for is live still.
C30_Witness ==
    /\ seq.env > 1
    /\ pod_envs = {}
    /\ last = [status |-> 200, why |-> "ok"]
    /\ <<"a">> \in k8s_pods

----------------------------------------------------------------------------
(* delete_pod beside requests that add to the pod: the properties *)

\* A delete_pod of the pod is between its first statement and its commit.
Deleting(pod) ==
    \E p \in Workers :
        /\ workers[p].pc \in {"files", "kubectl", "commit"}
        /\ workers[p].pod.id = pod.id

\* C31: whatever the interleaving of delete_pod with reserves
\* (add_exposed_port_to_pod) on the same pod, once no delete_pod of a pod is
\* in progress the pod's row is in the ledger only if its live pod is in the
\* cluster, and every reserved_port and pod_env row references a pod row
\* that exists.
C31_NoPodRowWithoutLivePod ==
    /\ \A pod \in pods : pod.name \in k8s_pods \/ Deleting(pod)
    /\ \A r \in reserved_ports \cup pod_envs :
           \E pod \in pods : pod.id = r.pod_id

----------------------------------------------------------------------------
(* An admin remains: the properties *)

\* C32: after any sequence of register, login and delete_user requests, if
\* the user table has a row then it has a row with the admin flag.
C32_AdminRemains ==
    users # {} => \E u \in users : u.is_admin

====
